---- MODULE Spec2Model ----
(***************************************************************************)
(* Model of src/app.py, a Streamlit dashboard script.  One execution of    *)
(* the script (a "run") goes top to bottom: page setup, load_data(), the   *)
(* preprocessing of three columns, the sidebar widgets, the filters, the   *)
(* KPI cards and the four tabs.  Streamlit re-executes the whole script on *)
(* every widget interaction; the st.cache_data store and the widget state  *)
(* outlive a run, every other name of the script is rebuilt by each run.   *)
(*                                                                         *)
(* Numbers: Sales and Price are small integers.  Quantile edges are kept   *)
(* in quarter units (value * 4) so that the linear interpolation of        *)
(* pandas' quantile() stays exact; a mean is kept as its sum and count, a  *)
(* Pearson coefficient as its numerator and the two squared deviations.    *)
(* Of the numeric columns only Sales and Price are modelled.               *)
(***************************************************************************)
EXTENDS Integers, Sequences, FiniteSets, TLC

VARIABLES
    csv,            \* the table stored in ./company_Data.csv
    cache,          \* st.cache_data store of load_data: <<>> or <<table>>
    reads,          \* number of times pd.read_csv has returned the table
    widgets,        \* widget state of the session: <<>> or <<FilterSpec>>
    touched,        \* TRUE once the user has changed a widget
    pc,             \* position of the script thread
    err,            \* exception that ended the current run, or "none"
    rendered,       \* page sections emitted by the current run
    df,             \* script global df: <<>> or <<frame>>
    sel,            \* values returned by the sidebar widgets in this run
    filtered_df,    \* script global filtered_df: <<>> or <<rows>>
    price_elasticity, urban_sales, us_sales, corr_matrix

vars == <<csv, cache, reads, widgets, touched, pc, err, rendered, df, sel,
          filtered_df, price_elasticity, urban_sales, us_sales, corr_matrix>>

locals == <<df, sel, filtered_df, price_elasticity, urban_sales, us_sales,
            corr_matrix>>

aggregates == <<price_elasticity, urban_sales, us_sales, corr_matrix>>

(***************************************************************************)
(* Bounds and value domains of the input file.                             *)
(***************************************************************************)
MaxRows == 2

SalesValues == {1, 2}

PriceValues == {1, 2}

ShelveLabels == {"Bad", "Good"}

YesNo == {"Yes", "No"}

\* The rows a file is made of: of the 32 combinations of the five columns,
\* the eight in which every two columns take all four pairs of values.
CsvRows ==
    {r \in [Sales : SalesValues, Price : PriceValues,
            ShelveLoc : ShelveLabels, Urban : YesNo, US : YesNo] :
        /\ (r.Urban = "Yes") <=> (r.Sales = r.Price)
        /\ (r.US = "Yes") <=> ((r.Sales = 1) <=> (r.ShelveLoc = "Bad"))}

Tables == UNION {[1..n -> CsvRows] : n \in 1..MaxRows}

None == <<>>

NaN == "NaN"

PyTrue == "True"

PyFalse == "False"

PyBool(b) == IF b THEN PyTrue ELSE PyFalse


(***************************************************************************)
(* load_data and the preprocessing of lines 38-41.                         *)
(***************************************************************************)
\* pd.read_csv: the rows of the file under a RangeIndex 0..n-1; text
\* columns come back with dtype object.
ReadCsv(table) ==
    [rows |-> [i \in 1..Len(table) |->
                 [idx |-> i - 1, Sales |-> table[i].Sales,
                  Price |-> table[i].Price, ShelveLoc |-> table[i].ShelveLoc,
                  Urban |-> table[i].Urban, US |-> table[i].US]],
     ShelveLocDtype |-> "object",
     categories |-> {}]

\* Mutant of BoolMap: a lookup that passes True and False through.
BoolMapKeepsBooleans(v) ==
    IF v = "Yes" THEN PyTrue ELSE IF v = "No" THEN PyFalse
    ELSE IF v \in {PyTrue, PyFalse} THEN v ELSE NaN

\* Series.map({'Yes': True, 'No': False}) on one cell: a value that is not a
\* key of the dictionary maps to NaN.
BoolMap(v) ==
    IF v = "Yes" THEN PyTrue ELSE IF v = "No" THEN PyFalse ELSE NaN

\* astype('category'): the cells keep their labels, the column gets the set
\* of labels observed in the frame as its categories.
AsCategory(frame) ==
    [frame EXCEPT !.ShelveLocDtype = "category",
                  !.categories = {frame.rows[i].ShelveLoc :
                                      i \in 1..Len(frame.rows)}]

\* Lines 39-41 applied to a frame.
Normalize(frame) ==
    LET c == AsCategory(frame)
    IN  [c EXCEPT !.rows = [i \in 1..Len(c.rows) |->
                              [c.rows[i] EXCEPT !.Urban = BoolMap(@),
                                                !.US = BoolMap(@)]]]

(***************************************************************************)
(* The sidebar, lines 46-78.                                               *)
(***************************************************************************)
ColMin(rows, col) ==
    CHOOSE m \in {rows[i][col] : i \in 1..Len(rows)} :
        \A i \in 1..Len(rows) : m <= rows[i][col]

ColMax(rows, col) ==
    CHOOSE m \in {rows[i][col] : i \in 1..Len(rows)} :
        \A i \in 1..Len(rows) : m >= rows[i][col]

\* df['ShelveLoc'].unique(), as the set of its labels
UniqueLabels(rows) == {rows[i].ShelveLoc : i \in 1..Len(rows)}

RadioOptions == {"All", "Yes", "No"}

\* Mutant of DefaultWidgets: the multiselect without its default= argument
\* starts with nothing selected.
DefaultWidgetsNoneSelected(frame) ==
    [min_sales |-> ColMin(frame.rows, "Sales"),
     max_sales |-> ColMax(frame.rows, "Sales"),
     min_price |-> ColMin(frame.rows, "Price"),
     max_price |-> ColMax(frame.rows, "Price"),
     shelve_locs |-> {},
     urban_filter |-> "All",
     us_filter |-> "All"]

\* The value every widget has before the user touches it: value=(min, max)
\* for the two sliders, default=all options, index=0.
DefaultWidgets(frame) ==
    [min_sales |-> ColMin(frame.rows, "Sales"),
     max_sales |-> ColMax(frame.rows, "Sales"),
     min_price |-> ColMin(frame.rows, "Price"),
     max_price |-> ColMax(frame.rows, "Price"),
     shelve_locs |-> UniqueLabels(frame.rows),
     urban_filter |-> "All",
     us_filter |-> "All"]

(***************************************************************************)
(* The filters, lines 80-91.                                               *)
(***************************************************************************)
\* Mutant of MaskFilter: the masked frame sorted by Sales.
MaskFilterSorted(rows, s) ==
    SortSeq(SelectSeq(rows, LAMBDA r :
                /\ r.Sales >= s.min_sales /\ r.Sales <= s.max_sales
                /\ r.Price >= s.min_price /\ r.Price <= s.max_price
                /\ r.ShelveLoc \in s.shelve_locs),
            LAMBDA a, b : a.Sales < b.Sales)

\* Mutant of MaskFilter: the isin() term negated.
MaskFilterNotIn(rows, s) ==
    SelectSeq(rows, LAMBDA r :
        /\ r.Sales >= s.min_sales /\ r.Sales <= s.max_sales
        /\ r.Price >= s.min_price /\ r.Price <= s.max_price
        /\ r.ShelveLoc \notin s.shelve_locs)

\* Lines 81-85: the boolean mask over df.
MaskFilter(rows, s) ==
    SelectSeq(rows, LAMBDA r :
        /\ r.Sales >= s.min_sales /\ r.Sales <= s.max_sales
        /\ r.Price >= s.min_price /\ r.Price <= s.max_price
        /\ r.ShelveLoc \in s.shelve_locs)

\* Lines 87-88.
UrbanFilter(rows, urban_filter) ==
    IF urban_filter # "All"
    THEN SelectSeq(rows, LAMBDA r : r.Urban = PyBool(urban_filter = "Yes"))
    ELSE rows

\* Mutant of UsFilter: the US step compares the Urban column.
UsFilterOnUrban(rows, us_filter) ==
    IF us_filter # "All"
    THEN SelectSeq(rows, LAMBDA r : r.Urban = PyBool(us_filter = "Yes"))
    ELSE rows

\* Lines 90-91.
UsFilter(rows, us_filter) ==
    IF us_filter # "All"
    THEN SelectSeq(rows, LAMBDA r : r.US = PyBool(us_filter = "Yes"))
    ELSE rows

FilterRows(rows, s) ==
    UsFilter(UrbanFilter(MaskFilter(rows, s), s.urban_filter), s.us_filter)

(***************************************************************************)
(* The aggregations, lines 182-186 and 203-228.                            *)
(***************************************************************************)
RECURSIVE SumCol(_, _)
SumCol(rows, col) ==
    IF rows = <<>> THEN 0 ELSE Head(rows)[col] + SumCol(Tail(rows), col)

RECURSIVE SumProd(_, _, _)
SumProd(rows, a, b) ==
    IF rows = <<>> THEN 0
    ELSE Head(rows)[a] * Head(rows)[b] + SumProd(Tail(rows), a, b)

\* Series.quantile(np.linspace(0, 1, 5)) with the default linear
\* interpolation, in quarter units: edge k sits at position (n-1)*k/4 of
\* the sorted values.  An empty series has NaN for every quantile.
QuantileEdges(rows) ==
    LET n == Len(rows)
        sorted == SortSeq([i \in 1..n |-> rows[i].Price],
                          LAMBDA a, b : a < b)
        Edge(k) ==
            LET lo == ((n - 1) * k) \div 4
                fr == ((n - 1) * k) % 4
            IN  IF fr = 0 THEN 4 * sorted[lo + 1]
                ELSE 4 * sorted[lo + 1] + fr * (sorted[lo + 2] - sorted[lo + 1])
    IN  IF n = 0 THEN [k \in 1..5 |-> NaN]
        ELSE [k \in 1..5 |-> Edge(k - 1)]

\* pd.qcut(..., q=4) keeps duplicates='raise': fewer unique edges than
\* edges is a ValueError ("Bin edges must be unique").
QcutRaises(rows) ==
    LET e == QuantileEdges(rows)
    IN  Cardinality({e[k] : k \in 1..5}) < 5

\* Lines 184-186 when qcut returns: one entry per bin (left, right], the
\* first bin closed on the left, with the sum and count of Sales of the
\* rows whose Price falls in it, and left + right for the midpoint.
PriceBins(rows) ==
    LET e == QuantileEdges(rows)
        InBin(r, k) ==
            /\ 4 * r.Price <= e[k + 1]
            /\ \/ 4 * r.Price > e[k]
               \/ k = 1 /\ 4 * r.Price = e[1]
    IN  [k \in 1..4 |->
           LET members == SelectSeq(rows, LAMBDA r : InBin(r, k))
           IN  [left |-> e[k], right |-> e[k + 1],
                midpoint2 |-> e[k] + e[k + 1],
                sum |-> SumCol(members, "Sales"), cnt |-> Len(members)]]

\* groupby(col)['Sales'].mean().reset_index(): one entry per value of col
\* that occurs; rows whose key is NaN belong to no group.
GroupMean(rows, col) ==
    {[key |-> g,
      sum |-> SumCol(SelectSeq(rows, LAMBDA r : r[col] = g), "Sales"),
      cnt |-> Len(SelectSeq(rows, LAMBDA r : r[col] = g))] :
        g \in {rows[i][col] : i \in 1..Len(rows)} \ {NaN}}

\* select_dtypes(include=[np.number]).columns, of the modelled columns
NumericCols == {"Sales", "Price"}

\* One entry of DataFrame.corr(): Pearson's r = num / sqrt(dx * dy); NaN
\* with fewer than two rows or a constant column.
Pearson(rows, a, b) ==
    LET n == Len(rows)
        num == n * SumProd(rows, a, b) - SumCol(rows, a) * SumCol(rows, b)
        dx == n * SumProd(rows, a, a) - SumCol(rows, a) * SumCol(rows, a)
        dy == n * SumProd(rows, b, b) - SumCol(rows, b) * SumCol(rows, b)
    IN  IF n < 2 \/ dx = 0 \/ dy = 0
        THEN [nan |-> TRUE, num |-> 0, dx |-> 0, dy |-> 0]
        ELSE [nan |-> FALSE, num |-> num, dx |-> dx, dy |-> dy]

CorrMatrix(rows) ==
    [a \in NumericCols |-> [b \in NumericCols |-> Pearson(rows, a, b)]]

(***************************************************************************)
(* The state machine.                                                      *)
(***************************************************************************)
Init ==
    /\ csv \in Tables
    /\ cache = None
    /\ reads = 0
    /\ widgets = None
    /\ touched = FALSE
    /\ pc = "start"
    /\ err = "none"
    /\ rendered = {}
    /\ df = None
    /\ sel = None
    /\ filtered_df = None
    /\ price_elasticity = None
    /\ urban_sales = None
    /\ us_sales = None
    /\ corr_matrix = None

\* An exception leaves the script: nothing below the raising line runs.
Halt(e) ==
    /\ err' = e
    /\ pc' = "halted"

\* Lines 10-24: page configuration, the page title and local_css, whose
\* open("style.css") is not guarded.
PageSetup ==
    /\ pc = "start"
    /\ \E cssFound \in BOOLEAN :
         IF cssFound
         THEN /\ rendered' = {"page_title", "css"}
              /\ pc' = "load"
              /\ err' = err
         ELSE /\ rendered' = {"page_title"}
              /\ Halt("FileNotFoundError:style.css")
    /\ UNCHANGED <<csv, cache, reads, widgets, touched, locals>>

\* Mutant of LoadData: the except clause without st.stop(): the error is
\* shown and the script goes on with df = None.
LoadDataWithoutStop ==
    /\ pc = "load"
    /\ IF cache # None
       THEN /\ df' = <<cache[1]>>
            /\ pc' = "preprocess"
            /\ UNCHANGED <<cache, reads, err, rendered>>
       ELSE \E source \in {"readable", "missing", "malformed"} :
              \/ /\ source = "readable"
                 /\ cache' = <<ReadCsv(csv)>>
                 /\ reads' = reads + 1
                 /\ df' = <<ReadCsv(csv)>>
                 /\ pc' = "preprocess"
                 /\ UNCHANGED <<err, rendered>>
              \/ /\ source = "missing"
                 /\ rendered' = rendered \cup {"error_message"}
                 /\ pc' = "preprocess"
                 /\ UNCHANGED <<cache, reads, df, err>>
              \/ /\ source = "malformed"
                 /\ Halt("ParserError")
                 /\ UNCHANGED <<cache, reads, df, rendered>>
    /\ UNCHANGED <<csv, widgets, touched, sel, filtered_df, aggregates>>

\* Mutant of LoadData: load_data without the @st.cache_data decorator: the
\* body runs on every call.
LoadDataUncached ==
    /\ pc = "load"
    /\ \E source \in {"readable", "missing", "malformed"} :
         \/ /\ source = "readable"
            /\ cache' = <<ReadCsv(csv)>>
            /\ reads' = reads + 1
            /\ df' = <<ReadCsv(csv)>>
            /\ pc' = "preprocess"
            /\ UNCHANGED <<err, rendered>>
         \/ /\ source = "missing"
            /\ rendered' = rendered \cup {"error_message"}
            /\ Halt("FileNotFoundError:company_Data.csv")
            /\ UNCHANGED <<cache, reads, df>>
         \/ /\ source = "malformed"
            /\ Halt("ParserError")
            /\ UNCHANGED <<cache, reads, df, rendered>>
    /\ UNCHANGED <<csv, widgets, touched, sel, filtered_df, aggregates>>

\* Lines 26-36: df = load_data() under @st.cache_data.  A hit returns a
\* fresh copy of the stored value and does not run the body.  On a miss
\* the body runs: read_csv returns the table, which is stored; or the file
\* is missing, which the except clause answers with st.error and st.stop;
\* or the text cannot be parsed and pandas' ParserError leaves the script
\* uncaught.  Nothing is stored when the body does not return.
LoadData ==
    /\ pc = "load"
    /\ IF cache # None
       THEN /\ df' = <<cache[1]>>
            /\ pc' = "preprocess"
            /\ UNCHANGED <<cache, reads, err, rendered>>
       ELSE \E source \in {"readable", "missing", "malformed"} :
              \/ /\ source = "readable"
                 /\ cache' = <<ReadCsv(csv)>>
                 /\ reads' = reads + 1
                 /\ df' = <<ReadCsv(csv)>>
                 /\ pc' = "preprocess"
                 /\ UNCHANGED <<err, rendered>>
              \/ /\ source = "missing"
                 /\ rendered' = rendered \cup {"error_message"}
                 /\ Halt("FileNotFoundError:company_Data.csv")
                 /\ UNCHANGED <<cache, reads, df>>
              \/ /\ source = "malformed"
                 /\ Halt("ParserError")
                 /\ UNCHANGED <<cache, reads, df, rendered>>
    /\ UNCHANGED <<csv, widgets, touched, sel, filtered_df, aggregates>>

\* Mutant of Preprocess: load_data hands out the stored object itself (as
\* st.cache_resource does), so the column assignments land in the store.
PreprocessStoredObject ==
    /\ pc = "preprocess"
    /\ IF df = None
       THEN /\ Halt("TypeError")
            /\ UNCHANGED <<df, cache>>
       ELSE /\ df' = <<Normalize(df[1])>>
            /\ cache' = <<Normalize(df[1])>>
            /\ pc' = "sidebar"
            /\ err' = err
    /\ UNCHANGED <<csv, reads, widgets, touched, rendered, sel,
                   filtered_df, aggregates>>

\* Lines 38-41: the three column assignments on the script's df.  df is
\* the copy load_data returned, the stored value is not reachable from it.
\* Subscripting None is a TypeError.
Preprocess ==
    /\ pc = "preprocess"
    /\ IF df = None
       THEN /\ Halt("TypeError")
            /\ df' = df
       ELSE /\ df' = <<Normalize(df[1])>>
            /\ pc' = "sidebar"
            /\ err' = err
    /\ UNCHANGED <<csv, cache, reads, widgets, touched, rendered, sel,
                   filtered_df, aggregates>>

\* Lines 43-78: the five sidebar widgets.  A widget returns its default on
\* the first run of the session and the value held in the widget state on
\* every later run.
Sidebar ==
    /\ pc = "sidebar"
    /\ widgets' = IF widgets = None THEN <<DefaultWidgets(df[1])>> ELSE widgets
    /\ sel' = widgets'
    /\ rendered' = rendered \cup {"sidebar"}
    /\ pc' = "filter"
    /\ UNCHANGED <<csv, cache, reads, touched, err, df, filtered_df,
                   aggregates>>

\* Lines 80-91.
ApplyFilters ==
    /\ pc = "filter"
    /\ filtered_df' = <<FilterRows(df[1].rows, sel[1])>>
    /\ pc' = "tab1"
    /\ UNCHANGED <<csv, cache, reads, widgets, touched, err, rendered, df,
                   sel, aggregates>>

\* Lines 93-195: the dashboard title, the KPI cards, the first tab, the two
\* pricing charts, then pd.qcut and the grouped mean.  When qcut raises,
\* the script ends at line 184.
SalesAndPricingTabs ==
    /\ pc = "tab1"
    /\ IF QcutRaises(filtered_df[1])
       THEN /\ rendered' = rendered \cup {"main_title", "kpi", "tab1",
                                          "tab2_charts"}
            /\ Halt("ValueError")
            /\ price_elasticity' = price_elasticity
       ELSE /\ rendered' = rendered \cup {"main_title", "kpi", "tab1",
                                          "tab2_charts", "price_elasticity"}
            /\ price_elasticity' = <<PriceBins(filtered_df[1])>>
            /\ pc' = "tab3"
            /\ err' = err
    /\ UNCHANGED <<csv, cache, reads, widgets, touched, df, sel, filtered_df,
                   urban_sales, us_sales, corr_matrix>>

\* Lines 197-308: the grouped means by Urban and by US and the
\* correlation matrix, then the fourth tab, the preview table and the
\* download button.
MarketAndDeepDiveTabs ==
    /\ pc = "tab3"
    /\ urban_sales' = <<GroupMean(filtered_df[1], "Urban")>>
    /\ us_sales' = <<GroupMean(filtered_df[1], "US")>>
    /\ corr_matrix' = <<CorrMatrix(filtered_df[1])>>
    /\ rendered' = rendered \cup {"urban_sales", "us_sales", "corr_matrix",
                                  "tab4", "preview", "download"}
    /\ pc' = "done"
    /\ UNCHANGED <<csv, cache, reads, widgets, touched, err, df, sel,
                   filtered_df, price_elasticity>>

\* Streamlit starts the script again from line 1 with fresh globals.
Restart ==
    /\ pc' = "start"
    /\ err' = "none"
    /\ rendered' = {}
    /\ df' = None
    /\ sel' = None
    /\ filtered_df' = None
    /\ price_elasticity' = None
    /\ urban_sales' = None
    /\ us_sales' = None
    /\ corr_matrix' = None

\* Mutant of WidgetChange: the new value enters the widget state and no
\* rerun follows.
WidgetChangeWithoutRerun ==
    /\ widgets # None
    /\ LET w == widgets[1]
           d == DefaultWidgets(cache[1])
       IN  \/ \E lo \in d.min_sales..d.max_sales : \E hi \in lo..d.max_sales :
                 /\ <<lo, hi>> # <<w.min_sales, w.max_sales>>
                 /\ widgets' = <<[w EXCEPT !.min_sales = lo, !.max_sales = hi]>>
           \/ \E lo \in d.min_price..d.max_price : \E hi \in lo..d.max_price :
                 /\ <<lo, hi>> # <<w.min_price, w.max_price>>
                 /\ widgets' = <<[w EXCEPT !.min_price = lo, !.max_price = hi]>>
           \/ \E chosen \in (SUBSET d.shelve_locs) \ {w.shelve_locs} :
                 widgets' = <<[w EXCEPT !.shelve_locs = chosen]>>
           \/ \E option \in RadioOptions \ {w.urban_filter} :
                 widgets' = <<[w EXCEPT !.urban_filter = option]>>
           \/ \E option \in RadioOptions \ {w.us_filter} :
                 widgets' = <<[w EXCEPT !.us_filter = option]>>
    /\ touched' = TRUE
    /\ UNCHANGED <<csv, cache, reads, pc, err, rendered, locals>>

\* The user moves one sidebar widget: its new value enters the widget
\* state and the script is run again, a run in progress being abandoned.
\* A slider position is modelled in steps of one unit between min_value
\* and max_value, a multiselect value as the set of the chosen options.
WidgetChange ==
    /\ widgets # None
    /\ LET w == widgets[1]
           d == DefaultWidgets(cache[1])
       IN  \/ \E lo \in d.min_sales..d.max_sales : \E hi \in lo..d.max_sales :
                 /\ <<lo, hi>> # <<w.min_sales, w.max_sales>>
                 /\ widgets' = <<[w EXCEPT !.min_sales = lo, !.max_sales = hi]>>
           \/ \E lo \in d.min_price..d.max_price : \E hi \in lo..d.max_price :
                 /\ <<lo, hi>> # <<w.min_price, w.max_price>>
                 /\ widgets' = <<[w EXCEPT !.min_price = lo, !.max_price = hi]>>
           \/ \E chosen \in (SUBSET d.shelve_locs) \ {w.shelve_locs} :
                 widgets' = <<[w EXCEPT !.shelve_locs = chosen]>>
           \/ \E option \in RadioOptions \ {w.urban_filter} :
                 widgets' = <<[w EXCEPT !.urban_filter = option]>>
           \/ \E option \in RadioOptions \ {w.us_filter} :
                 widgets' = <<[w EXCEPT !.us_filter = option]>>
    /\ touched' = TRUE
    /\ Restart
    /\ UNCHANGED <<csv, cache, reads>>

\* A rerun without a sidebar change (a control of the fourth tab, or the
\* Rerun command) once the script has ended.
Rerun ==
    /\ pc \in {"done", "halted"}
    /\ Restart
    /\ UNCHANGED <<csv, cache, reads, widgets, touched>>

Next ==
    \/ PageSetup
    \/ LoadData
    \/ Preprocess
    \/ Sidebar
    \/ ApplyFilters
    \/ SalesAndPricingTabs
    \/ MarketAndDeepDiveTabs
    \/ WidgetChange
    \/ Rerun

Spec == Init /\ [][Next]_vars

(***************************************************************************)
(* Properties.                                                             *)
(***************************************************************************)
\* The five conditions of the filter contract on one record.
Satisfies(r, s) ==
    /\ s.min_sales <= r.Sales /\ r.Sales <= s.max_sales
    /\ s.min_price <= r.Price /\ r.Price <= s.max_price
    /\ r.ShelveLoc \in s.shelve_locs
    /\ s.urban_filter # "All" => r.Urban = PyBool(s.urban_filter = "Yes")
    /\ s.us_filter # "All" => r.US = PyBool(s.us_filter = "Yes")

Contains(rows, r) == \E j \in 1..Len(rows) : rows[j] = r

\* The normalized dataset of the file.
NormalizedDataset == Normalize(ReadCsv(csv))

Normalized(frame) == frame.ShelveLocDtype = "category"

\* C1: the filtered view contains a record of the dataset if and only if
\* the record meets all five conditions of the filter specification.
FilterContract ==
    filtered_df # None =>
        \A i \in 1..Len(df[1].rows) :
            Contains(filtered_df[1], df[1].rows[i])
                <=> Satisfies(df[1].rows[i], sel[1])

FilterContractWitness ==
    /\ filtered_df # None
    /\ sel[1].urban_filter = "Yes"
    /\ sel[1].us_filter = "No"
    /\ Len(df[1].rows) = 2
    /\ Len(filtered_df[1]) = 1

LoadErrors == {"FileNotFoundError:company_Data.csv", "ParserError"}

LoadFailed == err \in LoadErrors \/ "error_message" \in rendered

\* C2: when the source cannot be read (missing file, unparsable table) the
\* run ends at the load: no normalization, filter, aggregate or dashboard
\* section exists in that run, and nothing is stored.
LoadFailureHalts ==
    LoadFailed =>
        /\ pc = "halted"
        /\ err \in LoadErrors
        /\ cache = None
        /\ df = None /\ sel = None /\ filtered_df = None
        /\ price_elasticity = None /\ urban_sales = None
        /\ us_sales = None /\ corr_matrix = None
        /\ rendered \subseteq {"page_title", "css", "error_message"}

LoadFailureHaltsWitness ==
    /\ err = "FileNotFoundError:company_Data.csv"
    /\ "error_message" \in rendered
    /\ pc = "halted"

\* C3: no aggregation step raises, whatever the filtered view.
AggregationNeverRaises == err # "ValueError"

\* C4: once load_data has returned, no later step reads the file or
\* changes the stored table, every later call of load_data (a step from
\* "load" that is not a restart) returns the stored table, and the file is
\* read at most once.
LoadMemoized ==
    /\ [](reads <= 1)
    /\ [][cache # None =>
            /\ cache' = cache
            /\ reads' = reads
            /\ (pc = "load" /\ pc' # "start" =>
                    df' = cache /\ pc' = "preprocess")]_vars

LoadMemoizedWitness ==
    /\ reads = 1
    /\ touched
    /\ pc = "preprocess"
    /\ df = cache

\* C5 as stated: normalizing a normalized frame changes nothing.
NormalizeIdempotent ==
    (df # None /\ Normalized(df[1])) => Normalize(df[1]) = df[1]

\* C5 as amended: normalizing a normalized frame leaves ShelveLoc, its
\* categories and the numeric columns as they are, and turns every Urban
\* and US value into NaN.
NormalizeIdempotentOnShelveLoc ==
    (df # None /\ Normalized(df[1])) =>
        LET once == df[1]
            twice == Normalize(df[1])
        IN  /\ twice.ShelveLocDtype = once.ShelveLocDtype
            /\ twice.categories = once.categories
            /\ Len(twice.rows) = Len(once.rows)
            /\ \A i \in 1..Len(once.rows) :
                 /\ twice.rows[i].ShelveLoc = once.rows[i].ShelveLoc
                 /\ twice.rows[i].Sales = once.rows[i].Sales
                 /\ twice.rows[i].Price = once.rows[i].Price
                 /\ once.rows[i].Urban \in {PyTrue, PyFalse}
                 /\ once.rows[i].US \in {PyTrue, PyFalse}
                 /\ twice.rows[i].Urban = NaN
                 /\ twice.rows[i].US = NaN

NormalizeWitness ==
    /\ pc = "sidebar"
    /\ df # None
    /\ Normalized(df[1])
    /\ Len(df[1].rows) = 2
    /\ df[1].rows[1].Urban # df[1].rows[2].Urban

\* C6: the table held by the loader is the table read from the file in
\* every state, and the normalized frame of every run is the same.
DatasetImmutable ==
    /\ cache # None => cache[1] = ReadCsv(csv)
    /\ (df # None /\ Normalized(df[1])) => df[1] = NormalizedDataset

DatasetImmutableWitness ==
    /\ touched
    /\ reads = 1
    /\ pc = "done"
    /\ df[1] = NormalizedDataset

\* C7: the filtered view is a subsequence of the dataset: its records are
\* records of the dataset at their own index, in increasing index order.
OrderPreserved ==
    filtered_df # None =>
        LET view == filtered_df[1]
        IN  /\ \A j \in 1..Len(view) :
                 /\ view[j].idx + 1 \in 1..Len(df[1].rows)
                 /\ view[j] = df[1].rows[view[j].idx + 1]
            /\ \A j, k \in 1..Len(view) : j < k => view[j].idx < view[k].idx

OrderPreservedWitness ==
    /\ filtered_df # None
    /\ Len(filtered_df[1]) = 2
    /\ filtered_df[1][1].Sales > filtered_df[1][2].Sales
    /\ sel[1].urban_filter # "All"
    /\ sel[1].us_filter # "All"

\* Slider positions at and beyond both ends of a column's values.
WiderPositions(values) ==
    values \cup {v - 1 : v \in values} \cup {v + 1 : v \in values}

\* C8: the view is no longer than the dataset, and lowering a min, raising
\* a max or adding a label to shelve_locs never yields a shorter view.
FilterMonotone ==
    filtered_df # None =>
        LET rows == df[1].rows
            s == sel[1]
            n == Len(filtered_df[1])
        IN  /\ n <= Len(rows)
            /\ \A v \in WiderPositions(SalesValues) :
                 /\ v <= s.min_sales =>
                      Len(FilterRows(rows, [s EXCEPT !.min_sales = v])) >= n
                 /\ v >= s.max_sales =>
                      Len(FilterRows(rows, [s EXCEPT !.max_sales = v])) >= n
            /\ \A v \in WiderPositions(PriceValues) :
                 /\ v <= s.min_price =>
                      Len(FilterRows(rows, [s EXCEPT !.min_price = v])) >= n
                 /\ v >= s.max_price =>
                      Len(FilterRows(rows, [s EXCEPT !.max_price = v])) >= n
            /\ \A label \in ShelveLabels :
                 Len(FilterRows(rows,
                       [s EXCEPT !.shelve_locs = @ \cup {label}])) >= n

FilterMonotoneWitness ==
    /\ filtered_df # None
    /\ Len(df[1].rows) = 2
    /\ Len(filtered_df[1]) = 1
    /\ Cardinality(sel[1].shelve_locs) = 1
    /\ sel[1].min_sales = sel[1].max_sales
    /\ Len(FilterRows(df[1].rows,
             [sel[1] EXCEPT !.shelve_locs = ShelveLabels])) = 2

\* The view the contract assigns to a dataset and a filter specification.
View(rows, s) == SelectSeq(rows, LAMBDA r : Satisfies(r, s))

InitialSelectsAll ==
    (~touched /\ filtered_df # None) =>
        /\ filtered_df[1] = df[1].rows
        /\ filtered_df[1] = NormalizedDataset.rows

InitialSelectsAllWitness ==
    /\ ~touched
    /\ filtered_df # None
    /\ Len(filtered_df[1]) = 2
    /\ Cardinality(sel[1].shelve_locs) = 2

====
